---- MODULE Spec2Model ----
(***************************************************************************)
(* A model of Fi-Supporter (src/main.py): the include/exclude rule model   *)
(* and its validation, the initial sync, the directory watchers, the       *)
(* retry queue (AttemptsManager) and the drive presence tracker.           *)
(*                                                                         *)
(* Paths are strings, modelled as sequences of characters; a drive letter  *)
(* with its colon ("C:") counts as one character.  All path functions are  *)
(* the string functions the code calls (str.startswith, str.removeprefix,  *)
(* ntpath.join, ntpath.split), so that a string prefix and a path          *)
(* component prefix are different things in the model as in the code.      *)
(***************************************************************************)
EXTENDS Integers, Sequences, FiniteSets, TLC

VARIABLES
    includes,     \* Configuration.includes: the Include rules
    drives,       \* the drive letters whose volume is present
    fs,           \* the file system: path -> "dir" or a file's content
    watchers,     \* main()'s watchers list
    mainpc,       \* the main thread's position in main()
    config,       \* the rule objects of the configuration file
    nDrives,      \* number of drive arrivals/removals so far
    devRaised,    \* the last devicesChanged ended with an exception
    bootActive,   \* history: each rule's isActive as the startup pass set it
    reported,     \* history: the arguments the last devicesChanged called back with
    events,       \* the file system events the observer has yet to dispatch
    handler,      \* the observer thread: the event handler in progress
    lastHandled,  \* history: the handler call that ended last
    operations,   \* AttemptsManager._operations
    hasStarted,   \* AttemptsManager._hasStarted
    timer,        \* AttemptsManager._timer: a Timer object, 0 for None
    timers,       \* the live Timer objects: "new", "armed", "running", "done"
    ticks,        \* the timer threads inside inquire, each with its locals
    nUser,        \* number of changes made to the source tree so far
    nFail,        \* number of file system calls the environment failed so far
    removed,      \* history: the operations removed from the queue
    lateAttempt,  \* history: an operation was attempted after its removal
    retried,      \* history: the operations a tick tried and failed
    lost,         \* history: a handler dropped its operation
    escaped       \* history: where an exception left a handler or a tick

bootVars == <<config, includes, drives, watchers, mainpc, nDrives, devRaised, bootActive,
              reported>>

queueVars == <<operations, hasStarted, timer, timers>>

histVars == <<removed, lateAttempt, retried, lost, escaped>>

runVars == <<events, handler, lastHandled, queueVars, ticks, nUser, nFail, histVars>>

vars == <<bootVars, fs, runVars>>

(***************************************************************************)
(* Bounds                                                                  *)
(***************************************************************************)
MaxDriveChanges == 2

\* changes made to the watched source tree
MaxUserOps == 2

\* file system calls that fail for a reason outside the program
MaxFailures == 2

\* events waiting for the observer thread
MaxPending == 1

\* timer threads inside inquire at the same time
MaxTicks == 1

\* timer threads inside inquire at the same time where ticks may overlap
MaxOverlap == 2

(***************************************************************************)
(* Strings and paths                                                       *)
(***************************************************************************)
\* a local variable: F of the value of v, v evaluated once
With(v, F(_)) == F(v)

With2(v, w, F(_, _)) == F(v, w)

SEP == "\\"

DriveLetters == {"C:", "D:", "E:"}

\* str.startswith
StartsWith(s, p) == Len(p) <= Len(s) /\ SubSeq(s, 1, Len(p)) = p

\* str.removeprefix
removeprefix(s, p) == IF StartsWith(s, p) THEN SubSeq(s, Len(p) + 1, Len(s)) ELSE s

\* ntpath.splitdrive: <<drive, rest>>
splitdrive(p) ==
    IF Len(p) > 0 /\ p[1] \in DriveLetters
    THEN <<SubSeq(p, 1, 1), Tail(p)>>
    ELSE <<<<>>, p>>

\* ntpath.join of two paths
join(a, b) ==
    With2(splitdrive(a), splitdrive(b), LAMBDA r, p :
        IF p[2] # <<>> /\ p[2][1] = SEP
        THEN (IF p[1] # <<>> \/ r[1] = <<>> THEN p[1] ELSE r[1]) \o p[2]
        ELSE IF p[1] # <<>> /\ p[1] # r[1]
        THEN p[1] \o p[2]
        ELSE r[1] \o (IF r[2] # <<>> /\ r[2][Len(r[2])] # SEP
                      THEN r[2] \o <<SEP>> ELSE r[2]) \o p[2])

\* the index of the last separator of s, 0 when it has none
RECURSIVE LastSep(_, _)
LastSep(s, i) == IF i = 0 \/ s[i] = SEP THEN i ELSE LastSep(s, i - 1)

\* str.rstrip of the separators
RECURSIVE rstrip(_)
rstrip(s) == IF s # <<>> /\ s[Len(s)] = SEP THEN rstrip(SubSeq(s, 1, Len(s) - 1)) ELSE s

\* ntpath.split: <<head, tail>>
split(p) ==
    With(splitdrive(p), LAMBDA dr :
        With(LastSep(dr[2], Len(dr[2])), LAMBDA i :
            With(rstrip(SubSeq(dr[2], 1, i)), LAMBDA head :
                <<dr[1] \o (IF head # <<>> THEN head ELSE SubSeq(dr[2], 1, i)),
                  SubSeq(dr[2], i + 1, Len(dr[2]))>>)))

basename(p) == split(p)[2]

\* fnmatch.fnmatch of a directory entry's name against a pattern without
\* wildcard characters: the pattern matches the whole name, literally
fnmatch(name, pat) == name = pat

(***************************************************************************)
(* The file system.  f maps every existing path to "dir" or to the         *)
(* content of the file there; a path on an absent drive does not exist.    *)
(***************************************************************************)
DriveRoot(p) == Len(p) > 0 /\ p[1] \in DriveLetters /\ (Len(p) = 1 \/ p = <<p[1], SEP>>)

\* os.path.exists
exists(p, f) ==
    /\ Len(p) > 0
    /\ p[1] \in drives
    /\ (p \in DOMAIN f \/ DriveRoot(p))

\* os.path.isfile
isfile(p, f) == exists(p, f) /\ p \in DOMAIN f /\ f[p] # "dir"

\* os.path.isdir
isdir(p, f) == exists(p, f) /\ (DriveRoot(p) \/ f[p] = "dir")

\* filecmp.cmp of two existing paths
cmp(a, b, f) == isfile(a, f) /\ isfile(b, f) /\ f[a] = f[b]

\* the paths at or below p
Under(p, f) == {q \in DOMAIN f : q = p \/ StartsWith(q, p \o <<SEP>>)}

Without(S, f) == [q \in (DOMAIN f) \ S |-> f[q]]

\* os.scandir: the names of the entries of directory p
scandir(p, f) ==
    LET pre == p \o <<SEP>>
    IN  {removeprefix(q, pre) :
            q \in {x \in DOMAIN f : /\ StartsWith(x, pre)
                                    /\ Len(x) > Len(pre)
                                    /\ \A k \in (Len(pre) + 1)..Len(x) : x[k] # SEP}}

\* the result of a file system call: the file system after it and how it
\* ended: "ok", "perm" (PermissionError), "os" (another OSError) or
\* "recursion" (RecursionError, which is no OSError)
Res(f, e) == [fs |-> f, err |-> e]

\* ensureParentFolderExists: on an absent drive the recursion reaches the
\* drive root, whose parent is itself, and never ends
RECURSIVE ensureParentFolderExists(_, _)
ensureParentFolderExists(dst, f) ==
    With(split(dst)[1], LAMBDA folder :
        IF exists(folder, f) THEN Res(f, "ok")
        ELSE IF folder = dst THEN Res(f, "recursion")
        ELSE With(ensureParentFolderExists(folder, f), LAMBDA r :
                IF r.err # "ok" THEN r
                ELSE Res((folder :> "dir") @@ r.fs, "ok")))

\* CopyMethod: shutil.copy2 after ensureParentFolderExists
CopyMethod(src, dst, f) ==
    With(ensureParentFolderExists(dst, f), LAMBDA r :
        IF r.err # "ok" THEN r
        ELSE With(IF isdir(dst, r.fs) THEN join(dst, basename(src)) ELSE dst, LAMBDA d :
                IF ~isfile(src, r.fs) \/ isdir(d, r.fs) THEN Res(r.fs, "os")
                ELSE Res((d :> r.fs[src]) @@ r.fs, "ok")))

\* os.makedirs(p, exist_ok=True) on a present drive
RECURSIVE makedirs(_, _)
makedirs(p, f) ==
    With(split(p)[1], LAMBDA parent :
        IF exists(p, f) \/ parent = p THEN f
        ELSE (p :> "dir") @@ makedirs(parent, f))

(***************************************************************************)
(* Initial sync                                                            *)
(***************************************************************************)
\* tryCopy2: an OSError is a warning and the file is left as it was
tryCopy2(src, dst, f) ==
    IF exists(dst, f) /\ (cmp(src, dst, f) \/ isdir(dst, f)) THEN f
    ELSE With(IF exists(dst, f) THEN Without({dst}, f) ELSE f, LAMBDA g :
            With(CopyMethod(src, dst, g), LAMBDA r :
                IF r.err = "ok" THEN r.fs ELSE g))

\* shutil.copytree(src, dst, dirs_exist_ok=True, ignore=ignore_patterns(pats),
\* copy_function=tryCopy2): the patterns are matched against the names of
\* each directory's entries
RECURSIVE copytree(_, _, _, _)
RECURSIVE copyEntries(_, _, _, _, _)
copytree(src, dst, pats, f) ==
    copyEntries({n \in scandir(src, f) : ~\E i \in DOMAIN pats : fnmatch(n, pats[i])},
                src, dst, pats, makedirs(dst, f))

copyEntries(names, src, dst, pats, f) ==
    IF names = {} THEN f
    ELSE With(CHOOSE x \in names : TRUE, LAMBDA n :
            With2(join(src, n), join(dst, n), LAMBDA srcname, dstname :
                copyEntries(names \ {n}, src, dst, pats,
                            IF isdir(srcname, f)
                            THEN copytree(srcname, dstname, pats, f)
                            ELSE tryCopy2(srcname, dstname, f))))

\* the pairs <<source file, destination>> copytree hands to its copy function
RECURSIVE Walked(_, _, _, _)
Walked(src, dst, pats, f) ==
    UNION {IF isdir(join(src, n), f)
           THEN Walked(join(src, n), join(dst, n), pats, f)
           ELSE {<<join(src, n), join(dst, n)>>} :
           n \in {x \in scandir(src, f) : ~\E p \in DOMAIN pats : fnmatch(x, pats[p])}}

\* arrangeIgnorePatterns: the list comprehension over excludes x includePaths
RECURSIVE arrangeFrom(_, _)
arrangeFrom(include, k) ==
    IF k > Len(include.excludes) * Len(include.includePaths) THEN <<>>
    ELSE With2(include.excludes[((k - 1) \div Len(include.includePaths)) + 1],
               include.includePaths[((k - 1) % Len(include.includePaths)) + 1],
               LAMBDA exclude, includeSrc :
                 (IF StartsWith(exclude, includeSrc)
                  THEN <<removeprefix(exclude, includeSrc \o <<SEP>>)>> ELSE <<>>)
                 \o arrangeFrom(include, k + 1))

arrangeIgnorePatterns(include) == arrangeFrom(include, 1)

\* Watcher.__init__ and configureObserver
Watcher(id, src, baseTargetPath, sourceFolderName, ignorePatterns) ==
    [id |-> id, sourcePath |-> src, baseTargetPath |-> baseTargetPath,
     sourceFolderName |-> sourceFolderName, ignorePaths |-> ignorePatterns,
     running |-> FALSE]

Ids(ws) == {ws[i].id : i \in DOMAIN ws}

\* the identity of a new Watcher object: one no live object has
NewId(used) == CHOOSE n \in 1..(Cardinality(used) + 1) : n \notin used

\* the state the sync functions thread through: the file system, the
\* observers list and whether an exception was raised
Sync(f, obs, raised) == [fs |-> f, obs |-> obs, raised |-> raised]

\* backupSinglePath; bad holds the source paths whose tree walk fails with
\* an OSError, used the ids of the live Watcher objects
backupSinglePath(st, include, ignorePatterns, sourcePath, bad, used) ==
    With(basename(sourcePath), LAMBDA sourceFolderName :
        With(join(include.targetPath, sourceFolderName), LAMBDA targetPath :
            IF \/ sourcePath \in bad
               \/ ~isdir(sourcePath, st.fs)
               \/ ~exists(splitdrive(targetPath)[1], st.fs)
            THEN Sync(st.fs, st.obs, TRUE)
            ELSE Sync(copytree(sourcePath, targetPath, ignorePatterns, st.fs),
                      Append(st.obs,
                             Watcher(NewId(used \cup Ids(st.obs)), sourcePath,
                                     include.targetPath, sourceFolderName, ignorePatterns)),
                      FALSE)))

\* ensureDataIsBackuped: the two nested loops, left by the first exception
RECURSIVE backupPaths(_, _, _, _, _, _)
backupPaths(st, include, ignorePatterns, j, bad, used) ==
    IF st.raised \/ j > Len(include.includePaths) THEN st
    ELSE backupPaths(
            IF include.isActive
            THEN backupSinglePath(st, include, ignorePatterns,
                                  include.includePaths[j], bad, used)
            ELSE st,
            include, ignorePatterns, j + 1, bad, used)

RECURSIVE ensureDataIsBackuped(_, _, _, _, _)
ensureDataIsBackuped(incs, i, st, bad, used) ==
    IF st.raised \/ i > Len(incs) THEN st
    ELSE ensureDataIsBackuped(incs, i + 1,
            backupPaths(st, incs[i], arrangeIgnorePatterns(incs[i]), 1, bad, used),
            bad, used)

\* observeFileSystem: Watcher.run of each observer
observeFileSystem(obs) == [i \in DOMAIN obs |-> [obs[i] EXCEPT !.running = TRUE]]

(***************************************************************************)
(* Rule model: validation and drive activity                               *)
(***************************************************************************)
\* list.remove: the first occurrence
RECURSIVE RemoveFirst(_, _)
RemoveFirst(s, x) ==
    IF s = <<>> THEN s
    ELSE IF Head(s) = x THEN Tail(s)
    ELSE <<Head(s)>> \o RemoveFirst(Tail(s), x)

\* ConfigurationValidationVisitor.visitExclude
visitExclude(parentInclude, exclude) ==
    LET isSub == \E i \in DOMAIN parentInclude.includePaths :
                    StartsWith(exclude, parentInclude.includePaths[i])
    IN  IF ~isSub
        THEN [parentInclude EXCEPT !.excludes = RemoveFirst(@, exclude)]
        ELSE parentInclude

\* Include.accept for the validation visitor: visitExclude over a copy of
\* the excludes
RECURSIVE acceptExcludes(_, _)
acceptExcludes(include, copy) ==
    IF copy = <<>> THEN include
    ELSE acceptExcludes(visitExclude(include, Head(copy)), Tail(copy))

validateInclude(include) == acceptExcludes(include, include.excludes)

\* ConfigurationUpdateActiveDrivesVisitor.visitInclude
visitInclude(include) ==
    With(splitdrive(include.targetPath)[1], LAMBDA drive :
        [include EXCEPT !.isActive = exists(drive, fs)])

\* Configuration.accept for the active drives visitor
updateActive(incs) == [i \in DOMAIN incs |-> visitInclude(incs[i])]

\* a subsequence: the elements of s at the indices in S, in order
RECURSIVE Pick(_, _, _)
Pick(s, S, i) ==
    IF i > Len(s) THEN <<>>
    ELSE (IF i \in S THEN <<s[i]>> ELSE <<>>) \o Pick(s, S, i + 1)

\* a variant of activatedRules: every active rule, flipped or not
activatedRulesAll(old, new) ==
    Pick(new, {i \in DOMAIN new : new[i].isActive}, 1)

\* activatedRules / deactivatedRules of the visitor
activatedRules(old, new) ==
    Pick(new, {i \in DOMAIN old : ~old[i].isActive /\ new[i].isActive}, 1)

deactivatedRules(old, new) ==
    Pick(new, {i \in DOMAIN old : old[i].isActive /\ ~new[i].isActive}, 1)

(***************************************************************************)
(* Activation and deactivation of rules                                    *)
(***************************************************************************)
\* activateRules
activateRules(incs, ws, f, bad) ==
    IF Len(incs) = 0 THEN Sync(f, ws, FALSE)
    ELSE With(ensureDataIsBackuped(incs, 1, Sync(f, <<>>, FALSE), bad, Ids(ws)),
              LAMBDA st :
                IF st.raised THEN Sync(st.fs, ws, TRUE)
                ELSE Sync(st.fs, ws \o observeFileSystem(st.obs), FALSE))

\* deactivateRules: the loops over the deactivated rules and the clone of
\* the watchers list; list.remove of a watcher no longer in the list raises
RECURSIVE deactivateFrom(_, _, _, _)
deactivateFrom(deactivated, clone, k, st) ==
    IF st.raised \/ k > Len(deactivated) * Len(clone) THEN st
    ELSE With2(deactivated[((k - 1) \div Len(clone)) + 1],
               clone[((k - 1) % Len(clone)) + 1],
               LAMBDA include, watcher :
                 IF /\ watcher.baseTargetPath = include.targetPath
                    /\ \E j \in DOMAIN include.includePaths :
                          include.includePaths[j] = watcher.sourcePath
                 THEN IF watcher.id \in Ids(st.obs)
                      THEN deactivateFrom(deactivated, clone, k + 1,
                              Sync(st.fs,
                                   Pick(st.obs,
                                        {i \in DOMAIN st.obs : st.obs[i].id # watcher.id}, 1),
                                   FALSE))
                      ELSE Sync(st.fs, st.obs, TRUE)
                 ELSE deactivateFrom(deactivated, clone, k + 1, st))

deactivateRules(deactivated, ws, f) ==
    IF Len(deactivated) = 0 THEN Sync(f, ws, FALSE)
    ELSE deactivateFrom(deactivated, ws, 1, Sync(f, ws, FALSE))

(***************************************************************************)
(* The live watcher                                                        *)
(***************************************************************************)
\* str.endswith
EndsWith(s, p) == Len(p) <= Len(s) /\ SubSeq(s, Len(s) - Len(p) + 1, Len(s)) = p

\* the match of a path against an ignore pattern without wildcard characters
\* by the PatternMatchingEventHandler that configureObserver builds: a
\* relative pattern matches the path's last components, one with a drive the
\* whole path
matchPath(p, pat) ==
    IF splitdrive(pat)[1] # <<>> THEN p = pat
    ELSE p = pat \/ EndsWith(p, <<SEP>> \o pat)

\* the handler's dispatch: an event reaches on_created, on_deleted,
\* on_modified or on_moved when one of its paths matches no ignore pattern
dispatched(w, event) ==
    \E p \in {event.src} \cup (IF event.type = "moved" THEN {event.dest} ELSE {}) :
        \A i \in DOMAIN w.ignorePaths : ~matchPath(p, w.ignorePaths[i])

\* Watcher.shouldIgnore
shouldIgnore(w, p) ==
    \E i \in DOMAIN w.ignorePaths : StartsWith(p, join(w.sourcePath, w.ignorePaths[i]))

\* Watcher.targetPath
targetPath(w) == join(w.baseTargetPath, w.sourceFolderName)

\* Watcher.destinationPath
destinationPath(w, fromPath) ==
    join(targetPath(w), removeprefix(removeprefix(fromPath, w.sourcePath), <<SEP>>))

\* a variant of nameIsDifferent: the whole paths compared
nameIsDifferentPath(srcPath, destPath) == srcPath # destPath

\* Watcher.nameIsDifferent
nameIsDifferent(srcPath, destPath) == split(srcPath)[2] # split(destPath)[2]

\* Watcher._create
_create(w, srcPath, f) ==
    IF isfile(srcPath, f) THEN CopyMethod(srcPath, destinationPath(w, srcPath), f)
    ELSE Res(f, "ok")

\* Watcher._delete: os.remove of a file, shutil.rmtree of anything else
_delete(destination, f) ==
    IF isfile(destination, f) THEN Res(Without({destination}, f), "ok")
    ELSE IF isdir(destination, f) /\ ~DriveRoot(destination)
    THEN Res(Without(Under(destination, f), f), "ok")
    ELSE Res(f, "os")

\* Watcher._replace
_replace(w, srcPath, f) ==
    IF ~isfile(srcPath, f) THEN Res(f, "ok")
    ELSE With(destinationPath(w, srcPath), LAMBDA dst :
            IF ~exists(dst, f) \/ ~cmp(srcPath, dst, f)
            THEN CopyMethod(srcPath, dst, f)
            ELSE Res(f, "ok"))

\* os.rename of an existing path to an absent one in an existing directory
rename(a, b, f) ==
    IF ~exists(a, f) \/ exists(b, f) \/ ~isdir(split(b)[1], f) THEN Res(f, "os")
    ELSE With2(Under(a, f), Without(Under(a, f), f), LAMBDA moved, g :
            Res([q \in DOMAIN g \cup {b \o SubSeq(x, Len(a) + 1, Len(x)) : x \in moved} |->
                    IF q \in DOMAIN g THEN g[q]
                    ELSE f[a \o SubSeq(q, Len(b) + 1, Len(q))]],
                "ok"))

\* Watcher._rename
_rename(targetSourcePath, targetDestPath, f) ==
    With(IF exists(targetDestPath, f) THEN _delete(targetDestPath, f) ELSE Res(f, "ok"),
         LAMBDA r :
            IF r.err # "ok" THEN r ELSE rename(targetSourcePath, targetDestPath, r.fs))

\* the callable a handler tries and, on a PermissionError, queues: the
\* lambda with the watcher and the paths it closes over
Callable(kind, a, b, w) == [kind |-> kind, a |-> a, b |-> b, w |-> w]

\* calling the callable
Exec(c, f) ==
    CASE c.kind = "create"  -> _create(c.w, c.a, f)
      [] c.kind = "delete"  -> _delete(c.a, f)
      [] c.kind = "replace" -> _replace(c.w, c.a, f)
      [] c.kind = "rename"  -> _rename(c.a, c.b, f)

\* the callable reaches a file system call that changes the target, the
\* call that can fail for a reason outside the program
Touches(c, f) ==
    CASE c.kind = "create"  -> isfile(c.a, f)
      [] c.kind = "delete"  -> TRUE
      [] c.kind = "replace" -> /\ isfile(c.a, f)
                               /\ \/ ~exists(destinationPath(c.w, c.a), f)
                                  \/ ~cmp(c.a, destinationPath(c.w, c.a), f)
      [] c.kind = "rename"  -> TRUE

\* the environment can fail the callable's call: it makes one, on a drive
\* that is present
CanFail(c, f) == Touches(c, f) /\ exists(splitdrive(c.w.baseTargetPath)[1], f)

\* what a handler does with an event: nothing, or the try of a callable
NoCall == [act |-> FALSE]

Call(c) == [act |-> TRUE, c |-> c]

on_created(w, event) ==
    IF shouldIgnore(w, event.src) THEN NoCall
    ELSE Call(Callable("create", event.src, <<>>, w))

on_deleted(w, event) ==
    IF shouldIgnore(w, event.src) THEN NoCall
    ELSE Call(Callable("delete", destinationPath(w, event.src), <<>>, w))

on_modified(w, event) ==
    IF shouldIgnore(w, event.src) THEN NoCall
    ELSE Call(Callable("replace", event.src, <<>>, w))

on_moved(w, event) ==
    IF shouldIgnore(w, event.src) THEN NoCall
    ELSE With2(destinationPath(w, event.src), destinationPath(w, event.dest),
               LAMBDA targetSourcePath, targetDestPath :
                 IF exists(targetSourcePath, fs) /\ nameIsDifferent(event.src, event.dest)
                 THEN Call(Callable("rename", targetSourcePath, targetDestPath, w))
                 ELSE NoCall)

Handle(w, event) ==
    CASE event.type = "created"  -> on_created(w, event)
      [] event.type = "deleted"  -> on_deleted(w, event)
      [] event.type = "modified" -> on_modified(w, event)
      [] event.type = "moved"    -> on_moved(w, event)

\* a variant of Caught: a PermissionError handled as any other OSError
CaughtAsOSError(err) ==
    CASE err = "ok"                -> "done"
      [] err \in {"perm", "os"}    -> "report"
      [] OTHER                     -> "escape"

\* the except clauses of the handlers: a PermissionError queues the
\* callable, any other OSError is reported, anything else leaves the handler
Caught(err) ==
    CASE err = "ok"   -> "done"
      [] err = "perm" -> "queue"
      [] err = "os"   -> "report"
      [] OTHER        -> "escape"

(***************************************************************************)
(* The retry queue                                                         *)
(***************************************************************************)
\* AttemptOperation.__init__: the object, with its identity
AttemptOperation(id, operation) == [id |-> id, operation |-> operation]

\* AttemptOperation.tryExecute: any exception is reported and gives False.
\* env is "ok" or the error the environment fails the call with
tryExecute(op, env, f) ==
    With(IF env = "ok" THEN Exec(op.operation, f) ELSE Res(f, env), LAMBDA r :
        [fs |-> r.fs, ok |-> r.err = "ok"])

\* the manager's timer state
Q == [hasStarted |-> hasStarted, timer |-> timer, timers |-> timers]

SetQ(q) ==
    /\ hasStarted' = q.hasStarted
    /\ timer' = q.timer
    /\ timers' = q.timers

\* a Timer object no reference is left to
Drop(ts, t) == [x \in (DOMAIN ts) \ {t} |-> ts[x]]

\* AttemptsManager.stop: the cancelled timer never fires; one whose function
\* is running goes on running it
stop(q) ==
    [hasStarted |-> FALSE, timer |-> 0,
     timers |-> IF q.timer = 0 \/ q.timers[q.timer] = "running" THEN q.timers
                ELSE Drop(q.timers, q.timer)]

\* AttemptsManager.reset_timer
reset_timer(q) ==
    IF q.timer # 0 THEN q
    ELSE With(CHOOSE n \in 1..(Cardinality(DOMAIN q.timers) + 1) : n \notin DOMAIN q.timers,
              LAMBDA n : [q EXCEPT !.timer = n, !.timers = (n :> "new") @@ @])

\* AttemptsManager.start: Timer.start raises RuntimeError for a timer that
\* was started before
start(q) ==
    With(reset_timer([q EXCEPT !.hasStarted = TRUE]), LAMBDA n :
        IF n.timers[n.timer] = "new"
        THEN [q |-> [n EXCEPT !.timers[n.timer] = "armed"], raised |-> FALSE]
        ELSE [q |-> n, raised |-> TRUE])

\* the timer thread of t ends
Finished(q, t) ==
    IF t \notin DOMAIN q.timers THEN q
    ELSE IF q.timer = t THEN [q EXCEPT !.timers[t] = "done"]
    ELSE [q EXCEPT !.timers = Drop(@, t)]

\* a variant of removeOps: nothing is removed
keepOps(st, rem) == st

\* the loops of Dequeue: list.remove of each operation, which raises
\* ValueError for one no longer in the list
RECURSIVE removeOps(_, _)
removeOps(st, rem) ==
    IF rem = <<>> \/ st.raised THEN st
    ELSE IF \E k \in DOMAIN st.ops : st.ops[k].id = Head(rem)
    THEN removeOps([ops |-> Pick(st.ops, {k \in DOMAIN st.ops : st.ops[k].id # Head(rem)}, 1),
                    gone |-> st.gone \cup {Head(rem)}, raised |-> FALSE],
                   Tail(rem))
    ELSE [st EXCEPT !.raised = TRUE]

\* a variant of Tick: the for loop starts at the second operation
TickFromSecond(t, ops, overlap) ==
    [t |-> t, pc |-> "loop", i |-> 2, operationsToRemove |-> <<>>,
     began |-> {ops[k].id : k \in DOMAIN ops},
     order |-> [k \in DOMAIN ops |-> ops[k].id], tried |-> <<>>, overlap |-> overlap]

\* inquire's locals in timer thread t: the position of the for loop,
\* operationsToRemove and, as history, the operations in the queue when the
\* tick began (as a set and in the order of the list), the operations tried
\* and whether another tick ran meanwhile
Tick(t, ops, overlap) ==
    [t |-> t, pc |-> "loop", i |-> 1, operationsToRemove |-> <<>>,
     began |-> {ops[k].id : k \in DOMAIN ops},
     order |-> [k \in DOMAIN ops |-> ops[k].id], tried |-> <<>>, overlap |-> overlap]

(***************************************************************************)
(* The source trees and the configurations of the model                    *)
(***************************************************************************)
SrcD   == <<"C:", SEP, "d">>
SrcDx  == <<"C:", SEP, "d", "x">>
SrcE   == <<"C:", SEP, "e">>
SrcEd  == <<"C:", SEP, "e", SEP, "d">>

SourceTree ==
    (SrcD :> "dir") @@ (SrcD \o <<SEP, "f">> :> "v1")
    @@ (SrcD \o <<SEP, "t">> :> "dir") @@ (SrcD \o <<SEP, "t", SEP, "f">> :> "v1")
    @@ (SrcD \o <<SEP, "a">> :> "dir") @@ (SrcD \o <<SEP, "a", SEP, "u">> :> "dir")
    @@ (SrcD \o <<SEP, "a", SEP, "u", SEP, "f">> :> "v2")
    @@ (SrcDx :> "dir") @@ (SrcDx \o <<SEP, "f">> :> "v1")
    @@ (SrcE :> "dir") @@ (SrcE \o <<SEP, "f">> :> "v2")
    @@ (SrcEd :> "dir") @@ (SrcEd \o <<SEP, "f">> :> "v2")

\* what the backup drive may hold before the first sync: a directory at the
\* path a source file maps to
BackupTree ==
    (<<"D:", SEP, "c">> :> "dir") @@ (<<"D:", SEP, "c", SEP, "e">> :> "dir")
    @@ (<<"D:", SEP, "c", SEP, "e", SEP, "f">> :> "dir")

\* Include.__init__
Include(paths, target, excludes) ==
    [isActive |-> TRUE, includePaths |-> paths, targetPath |-> target,
     excludes |-> excludes]

ExcludePoolD == <<SrcD \o <<SEP, "t">>, SrcD \o <<SEP, "a", SEP, "u">>, SrcD, SrcDx>>
ExcludePoolE == <<SrcE \o <<SEP, "f">>, SrcD \o <<SEP, "t">>>>

SubSeqs(pool) == {Pick(pool, S, 1) : S \in SUBSET (DOMAIN pool)}

BootConfigs ==
    {<<Include(pd, <<"D:", SEP, "b">>, xd),
       Include(<<SrcE>>, <<"D:", SEP, "c">>, xe),
       Include(<<SrcE>>, <<"E:", SEP, "b">>, <<>>)>> :
        pd \in {<<SrcD>>, <<SrcD, SrcE>>, <<SrcD, SrcEd>>},
        xd \in SubSeqs(ExcludePoolD),
        xe \in SubSeqs(ExcludePoolE)}

(***************************************************************************)
(* The configuration file: rule objects and their parsing                  *)
(***************************************************************************)
PATHS == "paths"

TARGET_PATH == "targetPath"

EXCLUDES == "excludes"

\* the working directory of the process
cwd == <<"C:", SEP, "w">>

\* dict.get: the value in a sequence of its own, the empty sequence for None
get(obj, key) == IF key \in DOMAIN obj THEN <<obj[key]>> ELSE <<>>

\* str(): the text "None" for None, a string is itself
str(o) == IF o = <<>> THEN <<"None">> ELSE o[1]

\* ntpath.abspath: the working directory for "", a relative path joined to it
abspath(p) ==
    IF p = <<>> THEN cwd
    ELSE IF splitdrive(p)[1] # <<>> THEN p
    ELSE join(cwd, p)

\* existentPaths, with pathIfExists
existentPaths(paths, f) ==
    With(Pick(paths, {k \in DOMAIN paths : paths[k] # <<>> /\ exists(paths[k], f)}, 1),
         LAMBDA found : [k \in DOMAIN found |-> abspath(found[k])])

\* Include.fromObject; list(None) raises TypeError
fromObject(obj, f) ==
    IF get(obj, PATHS) = <<>> THEN [raised |-> TRUE]
    ELSE IF get(obj, PATHS)[1] = <<>> THEN [raised |-> TRUE]
    ELSE With(existentPaths(get(obj, PATHS)[1], f), LAMBDA paths :
        IF paths = <<>> THEN [raised |-> TRUE]
        ELSE With(abspath(str(get(obj, TARGET_PATH))), LAMBDA target :
            IF target = <<>> THEN [raised |-> TRUE]
            ELSE [raised |-> FALSE,
                  include |-> Include(paths, target,
                                      IF get(obj, EXCLUDES) # <<>>
                                         /\ get(obj, EXCLUDES)[1] # <<>>
                                      THEN existentPaths(get(obj, EXCLUDES)[1], f)
                                      ELSE <<>>)]))

\* Configuration.parseIncludes and fromObj: the rules parsed in order, an
\* exception of fromObject ends the parsing, no rule at all is an error
RECURSIVE parseIncludes(_, _, _, _)
parseIncludes(objs, i, f, incs) ==
    IF i > Len(objs) THEN [raised |-> incs = <<>>, includes |-> incs]
    ELSE IF DOMAIN objs[i] = {} THEN parseIncludes(objs, i + 1, f, incs)
    ELSE With(fromObject(objs[i], f), LAMBDA r :
        IF r.raised THEN [raised |-> TRUE, includes |-> incs]
        ELSE parseIncludes(objs, i + 1, f, Append(incs, r.include)))

\* the rule object an Include is parsed from
Object(inc) ==
    (PATHS :> inc.includePaths) @@ (TARGET_PATH :> inc.targetPath)
    @@ (EXCLUDES :> inc.excludes)

Objects(incs) == [i \in DOMAIN incs |-> Object(incs[i])]

\* rule objects with and without each key
RawPaths == {<<>>, <<SrcD>>, <<SrcD, <<"C:", SEP, "n">>>>, <<<<"C:", SEP, "n">>>>}

RawTargets == {<<>>, <<"D:", SEP, "b">>, <<"b">>}

RawExcludes == {<<>>, <<SrcD \o <<SEP, "t">>>>}

Keyed(key, vals) == {(key :> v) : v \in vals}

RawRules ==
    {p @@ t @@ x :
        p \in Keyed(PATHS, RawPaths) \cup {<<>>},
        t \in Keyed(TARGET_PATH, RawTargets) \cup {<<>>},
        x \in Keyed(EXCLUDES, RawExcludes) \cup {<<>>}}

RawConfigs == {<<>>} \cup {<<r>> : r \in RawRules} \cup {<<r, q>> : r, q \in RawRules}

(***************************************************************************)
(* main(): validation, drive activity, initial sync                        *)
(***************************************************************************)
\* devicesChanged calls a callback when its list of rules is not empty:
\* <<rules>> for a call with that list, <<>> for no call
Called(rules) == IF Len(rules) > 0 THEN <<rules>> ELSE <<>>

Report(activated, deactivated) ==
    [onActivate |-> Called(activated), onDeactivate |-> Called(deactivated)]

NoReport == Report(<<>>, <<>>)

Idle == [pc |-> "idle"]

\* AttemptsManager.__init__: no operation, not started, a Timer not started
InitRunVars ==
    /\ events = <<>>
    /\ handler = Idle
    /\ lastHandled = [outcome |-> "none"]
    /\ operations = <<>>
    /\ hasStarted = FALSE
    /\ timer = 1
    /\ timers = (1 :> "new")
    /\ ticks = {}
    /\ nUser = 0
    /\ nFail = 0
    /\ removed = {}
    /\ lateAttempt = FALSE
    /\ retried = {}
    /\ lost = FALSE
    /\ escaped = {}

InitBoot ==
    /\ includes \in BootConfigs
    /\ config = Objects(includes)
    /\ drives \in {{"C:"} \cup S : S \in SUBSET {"D:", "E:"}}
    /\ fs \in {SourceTree, BackupTree @@ SourceTree}
    /\ watchers = <<>>
    /\ mainpc = "validate"
    /\ nDrives = 0
    /\ devRaised = FALSE
    /\ bootActive = <<>>
    /\ reported = NoReport
    /\ InitRunVars

\* config.accept(ConfigurationValidationVisitor())
Validate ==
    /\ mainpc = "validate"
    /\ includes' = [i \in DOMAIN includes |-> validateInclude(includes[i])]
    /\ mainpc' = "drives"
    /\ UNCHANGED <<config, drives, fs, watchers, nDrives, devRaised, bootActive, reported, runVars>>

\* config.accept(activeDrivesVisitor)
UpdateActiveDrives ==
    /\ mainpc = "drives"
    /\ includes' = updateActive(includes)
    /\ bootActive' = [i \in DOMAIN includes |-> includes'[i].isActive]
    /\ mainpc' = "sync"
    /\ UNCHANGED <<config, drives, fs, watchers, nDrives, devRaised, reported, runVars>>

\* the ways a sync can fail: no tree walk fails, or the walk of one source path
SourcePaths(incs) ==
    UNION {{incs[i].includePaths[j] : j \in DOMAIN incs[i].includePaths} : i \in DOMAIN incs}

Failures(incs) == {{}} \cup {{p} : p \in SourcePaths(incs)}

\* ensureDataIsBackuped(config.includes, watchers); observeFileSystem(watchers);
\* runDeviceWatcher(config, watchers).  An exception ends main() in its handler.
StartupSync ==
    /\ mainpc = "sync"
    /\ \E bad \in Failures(includes) :
        \E st \in {ensureDataIsBackuped(includes, 1, Sync(fs, <<>>, FALSE), bad, {})} :
            /\ fs' = st.fs
            /\ watchers' = IF st.raised THEN st.obs ELSE observeFileSystem(st.obs)
            /\ mainpc' = IF st.raised THEN "failed" ELSE "running"
    /\ UNCHANGED <<config, includes, drives, nDrives, devRaised, bootActive, reported, runVars>>

(***************************************************************************)
(* Drive presence                                                          *)
(***************************************************************************)
\* a volume arrives or is removed
DriveChange ==
    /\ mainpc # "exited"
    /\ nDrives < MaxDriveChanges
    /\ \E d \in {includes[i].targetPath[1] : i \in DOMAIN includes} :
        drives' = IF d \in drives THEN drives \ {d} ELSE drives \cup {d}
    /\ nDrives' = nDrives + 1
    /\ UNCHANGED <<config, includes, fs, watchers, mainpc, devRaised, bootActive, reported, runVars>>

\* DevicesWatcher.devicesChanged
DevicesChanged ==
    /\ mainpc = "running"
    /\ \E bad \in Failures(includes) :
        \E new \in {updateActive(includes)} :
        \E act \in {activateRules(activatedRules(includes, new), watchers, fs, bad)} :
        \E dea \in {deactivateRules(deactivatedRules(includes, new), act.obs, act.fs)} :
            /\ includes' = new
            /\ fs' = act.fs
            /\ watchers' = IF act.raised THEN act.obs ELSE dea.obs
            /\ devRaised' = (act.raised \/ dea.raised)
            /\ reported' = Report(activatedRules(includes, new),
                                  IF act.raised THEN <<>> ELSE deactivatedRules(includes, new))
    \* Watcher.stop joins the observer thread: it returns when the handler
    \* in progress has, and the events not yet dispatched are dropped
    /\ IF handler.pc = "idle" THEN TRUE ELSE handler.w.id \in Ids(watchers')
    /\ events' = Pick(events, {k \in DOMAIN events : events[k].wid \in Ids(watchers')}, 1)
    /\ UNCHANGED <<config, drives, mainpc, nDrives, bootActive, handler, lastHandled, queueVars,
                   ticks, nUser, nFail, histVars>>

(***************************************************************************)
(* Shutdown                                                                *)
(***************************************************************************)
\* KeyboardInterrupt in input(): main() prints its message and returns,
\* onExitHandler closes the log and the process exits; the observer, device
\* watcher and timer threads end with the process wherever they are
Interrupt ==
    /\ mainpc = "running"
    /\ mainpc' = "exited"
    /\ UNCHANGED <<config, includes, drives, fs, watchers, nDrives, devRaised, bootActive,
                   reported, runVars>>

NextBoot ==
    \/ Validate
    \/ UpdateActiveDrives
    \/ StartupSync
    \/ DriveChange
    \/ DevicesChanged
    \/ Interrupt

SpecBoot == InitBoot /\ [][NextBoot]_vars

(***************************************************************************)
(* Two rules on one drive, which may have the same target path and share   *)
(* an include path                                                         *)
(***************************************************************************)
SharedConfigs ==
    {<<Include(pa, ta, <<>>), Include(pb, tb, <<>>)>> :
        pa \in {<<SrcD>>, <<SrcD, SrcE>>},
        pb \in {<<SrcE>>, <<SrcD>>},
        ta \in {<<"D:", SEP, "b">>},
        tb \in {<<"D:", SEP, "b">>, <<"D:", SEP, "c">>}}

InitShared ==
    /\ includes \in SharedConfigs
    /\ config = Objects(includes)
    /\ drives \in {{"C:"}, {"C:", "D:"}}
    /\ fs = SourceTree
    /\ watchers = <<>>
    /\ mainpc = "validate"
    /\ nDrives = 0
    /\ devRaised = FALSE
    /\ bootActive = <<>>
    /\ reported = NoReport
    /\ InitRunVars

SpecShared == InitShared /\ [][NextBoot]_vars

(***************************************************************************)
(* Reading the configuration                                               *)
(***************************************************************************)
InitParse ==
    /\ config \in RawConfigs
    /\ includes = <<>>
    /\ drives = {"C:", "D:"}
    /\ fs = SourceTree
    /\ watchers = <<>>
    /\ mainpc = "read"
    /\ nDrives = 0
    /\ devRaised = FALSE
    /\ bootActive = <<>>
    /\ reported = NoReport
    /\ InitRunVars

\* tryReadConfig: Configuration.fromFile; an exception ends main()
ReadConfig ==
    /\ mainpc = "read"
    /\ \E r \in {parseIncludes(config, 1, fs, <<>>)} :
        /\ includes' = IF r.raised THEN <<>> ELSE r.includes
        /\ mainpc' = IF r.raised THEN "failed" ELSE "validate"
    /\ UNCHANGED <<config, drives, fs, watchers, nDrives, devRaised, bootActive, reported, runVars>>

NextParse ==
    \/ ReadConfig
    \/ Validate
    \/ UpdateActiveDrives

SpecParse == InitParse /\ [][NextParse]_vars

(***************************************************************************)
(* The run: one rule with an excluded file, changes to its source tree     *)
(***************************************************************************)
RunFile(n) == SrcD \o <<SEP, n>>

RunNames == {"f", "g", "t"}

Contents == {"v1", "v2"}

RunConfig == <<Include(<<SrcD>>, <<"D:", SEP, "b">>, <<RunFile("t")>>)>>

RunDir == SrcD \o <<SEP, "a">>

RunTree ==
    (SrcD :> "dir") @@ (RunFile("f") :> "v1") @@ (RunFile("t") :> "v2") @@ (RunDir :> "dir")

\* where a file of the source tree can be moved to: another name, or the
\* sub-directory under its own or another name
MoveTargets == {RunFile(m) : m \in RunNames} \cup {RunDir \o <<SEP, m>> : m \in {"f", "g"}}

Init ==
    /\ includes = RunConfig
    /\ config = Objects(includes)
    /\ drives = {"C:", "D:"}
    /\ fs = RunTree
    /\ watchers = <<>>
    /\ mainpc = "validate"
    /\ nDrives = 0
    /\ devRaised = FALSE
    /\ bootActive = <<>>
    /\ reported = NoReport
    /\ InitRunVars

Event(type, src, dest) == [type |-> type, src |-> src, dest |-> dest, wid |-> 0]

\* the events the observers of the running watchers queue for a change
\* below their source path
RECURSIVE Observed(_, _, _)
Observed(ws, k, event) ==
    IF k > Len(ws) THEN <<>>
    ELSE (IF ws[k].running /\ StartsWith(event.src, ws[k].sourcePath \o <<SEP>>)
          THEN <<[event EXCEPT !.wid = ws[k].id]>> ELSE <<>>)
         \o Observed(ws, k + 1, event)

\* a change to the source tree and the events it raises
Change(f, event) ==
    /\ mainpc = "running"
    /\ nUser < MaxUserOps
    /\ \E evs \in {Observed(watchers, 1, event)} :
        /\ Len(events) + Len(evs) <= MaxPending
        /\ events' = events \o evs
    /\ fs' = f
    /\ nUser' = nUser + 1
    /\ UNCHANGED <<bootVars, handler, lastHandled, queueVars, ticks, nFail, histVars>>

UserCreate ==
    \E n \in RunNames, c \in Contents :
        /\ RunFile(n) \notin DOMAIN fs
        /\ Change((RunFile(n) :> c) @@ fs, Event("created", RunFile(n), <<>>))

UserModify ==
    \E n \in RunNames :
        /\ RunFile(n) \in DOMAIN fs
        /\ \E c \in Contents \ {fs[RunFile(n)]} :
            Change([fs EXCEPT ![RunFile(n)] = c], Event("modified", RunFile(n), <<>>))

UserDelete ==
    \E n \in RunNames :
        /\ RunFile(n) \in DOMAIN fs
        /\ Change(Without({RunFile(n)}, fs), Event("deleted", RunFile(n), <<>>))

UserMove ==
    \E n \in RunNames, dest \in MoveTargets :
        /\ RunFile(n) \in DOMAIN fs
        /\ dest \notin DOMAIN fs
        /\ Change(rename(RunFile(n), dest, fs).fs, Event("moved", RunFile(n), dest))

(***************************************************************************)
(* The observer thread: an event handler                                   *)
(***************************************************************************)
\* how a handler call ended: how its file system call ended ("none" when it
\* made none), the call, the operations it queued, the error events it sent
Handled(outcome, call, queued, errs) ==
    [outcome |-> outcome, call |-> call, queued |-> queued, errs |-> errs]

\* the handler that queued its callable returns, or an exception leaves it
EndHandler(esc) ==
    /\ handler' = Idle
    /\ lastHandled' = Handled(handler.err, handler.call, handler.queued, 0)
    /\ escaped' = IF esc THEN escaped \cup {"handler"} ELSE escaped

\* on_created, on_deleted, on_modified, on_moved up to the end of the try
\* statement's body and the choice of the except clause
Dispatch ==
    /\ mainpc = "running"
    /\ handler.pc = "idle"
    /\ events # <<>>
    /\ events' = Tail(events)
    /\ \E event \in {Head(events)} :
       \E w \in {watchers[k] : k \in {x \in DOMAIN watchers : watchers[x].id = event.wid}} :
       \E call \in {IF dispatched(w, event) THEN Handle(w, event) ELSE NoCall} :
         IF ~call.act
         THEN /\ lastHandled' = Handled("none", call, <<>>, 0)
              /\ UNCHANGED <<fs, handler, nFail, lost, escaped>>
         ELSE \E env \in {"ok", "perm", "os"} :
              /\ (env # "ok") => (nFail < MaxFailures /\ CanFail(call.c, fs))
              /\ nFail' = IF env = "ok" THEN nFail ELSE nFail + 1
              /\ \E r \in {IF env = "ok" THEN Exec(call.c, fs) ELSE Res(fs, env)} :
                 \E branch \in {Caught(r.err)} :
                   /\ fs' = r.fs
                   /\ handler' = IF branch = "queue"
                                 THEN [pc |-> "queue", w |-> w, call |-> call, err |-> r.err,
                                       op |-> AttemptOperation(nFail + 1, call.c),
                                       queued |-> <<>>]
                                 ELSE Idle
                   /\ lastHandled' = IF branch = "queue" THEN lastHandled
                                     ELSE Handled(r.err, call, <<>>,
                                                  IF branch = "report" THEN 1 ELSE 0)
                   /\ lost' = (lost \/ branch \in {"report", "escape"})
                   /\ escaped' = IF branch = "escape" THEN escaped \cup {"handler"}
                                 ELSE escaped
    /\ UNCHANGED <<bootVars, queueVars, ticks, nUser, removed, lateAttempt, retried>>

\* QueueCallable and QueueOperation: the test of _hasStarted, then stop()
\* or, in the else branch, the append
QueueOperation ==
    /\ mainpc # "exited"
    /\ handler.pc = "queue"
    /\ IF hasStarted
       THEN /\ SetQ(stop(Q))
            /\ handler' = [handler EXCEPT !.pc = "append"]
            /\ UNCHANGED operations
       ELSE /\ operations' = Append(operations, handler.op)
            /\ handler' = [handler EXCEPT !.pc = "start", !.queued = Append(@, handler.op)]
            /\ UNCHANGED <<hasStarted, timer, timers>>
    /\ UNCHANGED <<bootVars, fs, events, lastHandled, ticks, nUser, nFail, histVars>>

\* QueueOperation: the append between stop() and start()
QueueOperationAppend ==
    /\ mainpc # "exited"
    /\ handler.pc = "append"
    /\ operations' = Append(operations, handler.op)
    /\ handler' = [handler EXCEPT !.pc = "restart", !.queued = Append(@, handler.op)]
    /\ UNCHANGED <<bootVars, fs, events, lastHandled, hasStarted, timer, timers, ticks,
                   nUser, nFail, histVars>>

\* QueueOperation: start() after the append
QueueOperationStart ==
    /\ mainpc # "exited"
    /\ handler.pc = "restart"
    /\ \E s \in {start(Q)} :
        /\ SetQ(s.q)
        /\ IF s.raised THEN EndHandler(TRUE)
           ELSE /\ handler' = [handler EXCEPT !.pc = "start"]
                /\ UNCHANGED <<lastHandled, escaped>>
    /\ UNCHANGED <<bootVars, fs, events, operations, ticks, nUser, nFail,
                   removed, lateAttempt, retried, lost>>

\* the handler's own attemptsManager.start() after QueueCallable
HandlerStart ==
    /\ mainpc # "exited"
    /\ handler.pc = "start"
    /\ \E s \in {start(Q)} :
        /\ SetQ(s.q)
        /\ EndHandler(s.raised)
    /\ UNCHANGED <<bootVars, fs, events, operations, ticks, nUser, nFail,
                   removed, lateAttempt, retried, lost>>

(***************************************************************************)
(* The timer threads: AttemptsManager.inquire                              *)
(***************************************************************************)
Replace(k, k2) == ticks' = (ticks \ {k}) \cup {k2}

\* timer thread k.t ends, with the manager's timer state q; esc: an
\* exception left inquire
EndTick(k, q, esc) ==
    /\ ticks' = ticks \ {k}
    /\ SetQ(Finished(q, k.t))
    /\ escaped' = IF esc THEN escaped \cup {"tick"} ELSE escaped

\* the period of armed timer t ends: its thread calls inquire; cap bounds
\* the timer threads inside inquire at once
Fires(t, cap) ==
    /\ timers[t] = "armed"
    /\ Cardinality(ticks) < cap
    /\ timers' = [timers EXCEPT ![t] = "running"]
    /\ ticks' = {[k EXCEPT !.overlap = TRUE] : k \in ticks}
                \cup {Tick(t, operations, ticks # {})}
    /\ UNCHANGED <<bootVars, fs, events, handler, lastHandled, operations, hasStarted,
                   timer, nUser, nFail, histVars>>

TimerFires ==
    /\ mainpc # "exited"
    /\ \E t \in DOMAIN timers : Fires(t, MaxTicks)

\* a timer started during a tick fires while that tick is still in inquire
TimerFiresOverlap ==
    /\ mainpc # "exited"
    /\ \E t \in DOMAIN timers : Fires(t, MaxOverlap)

\* inquire: one turn of the for loop over the list
InquireTry ==
    /\ mainpc # "exited"
    /\ \E k \in ticks :
        /\ k.pc = "loop"
        /\ k.i <= Len(operations)
        /\ \E op \in {operations[k.i]} :
           \E env \in {"ok", "perm"} :
            /\ (env # "ok") => (nFail < MaxFailures /\ CanFail(op.operation, fs))
            /\ nFail' = IF env = "ok" THEN nFail ELSE nFail + 1
            /\ \E r \in {tryExecute(op, env, fs)} :
                /\ fs' = r.fs
                /\ Replace(k, [k EXCEPT !.i = @ + 1,
                                        !.tried = Append(@, op.id),
                                        !.operationsToRemove =
                                            IF r.ok THEN Append(@, op.id) ELSE @])
                /\ retried' = IF r.ok THEN retried ELSE retried \cup {op.id}
            /\ lateAttempt' = (lateAttempt \/ op.id \in removed)
    /\ UNCHANGED <<bootVars, events, handler, lastHandled, queueVars, nUser,
                   removed, lost, escaped>>

\* inquire: the end of the loop and the test of operationsToRemove; Dequeue:
\* the test of _hasStarted, then stop() or, in the else branch, the removals
InquireDequeue ==
    /\ mainpc # "exited"
    /\ \E k \in ticks :
        /\ k.pc = "loop"
        /\ k.i > Len(operations)
        /\ IF k.operationsToRemove = <<>>
           THEN /\ Replace(k, [k EXCEPT !.pc = "stop"])
                /\ UNCHANGED <<queueVars, removed, escaped>>
           ELSE IF hasStarted
           THEN /\ SetQ(stop(Q))
                /\ Replace(k, [k EXCEPT !.pc = "remove"])
                /\ UNCHANGED <<operations, removed, escaped>>
           ELSE \E st \in {removeOps([ops |-> operations, gone |-> {}, raised |-> FALSE],
                                     k.operationsToRemove)} :
                /\ operations' = st.ops
                /\ removed' = removed \cup st.gone
                /\ IF st.raised THEN EndTick(k, Q, TRUE)
                   ELSE /\ Replace(k, [k EXCEPT !.pc = "stop"])
                        /\ UNCHANGED <<hasStarted, timer, timers, escaped>>
    /\ UNCHANGED <<bootVars, fs, events, handler, lastHandled, nUser, nFail,
                   lateAttempt, retried, lost>>

\* Dequeue: the removals between stop() and start()
DequeueRemove ==
    /\ mainpc # "exited"
    /\ \E k \in ticks :
        /\ k.pc = "remove"
        /\ \E st \in {removeOps([ops |-> operations, gone |-> {}, raised |-> FALSE],
                                k.operationsToRemove)} :
            /\ operations' = st.ops
            /\ removed' = removed \cup st.gone
            /\ IF st.raised THEN EndTick(k, Q, TRUE)
               ELSE /\ Replace(k, [k EXCEPT !.pc = "restart"])
                    /\ UNCHANGED <<hasStarted, timer, timers, escaped>>
    /\ UNCHANGED <<bootVars, fs, events, handler, lastHandled, nUser, nFail,
                   lateAttempt, retried, lost>>

\* Dequeue: start() after the removals
DequeueStart ==
    /\ mainpc # "exited"
    /\ \E k \in ticks :
        /\ k.pc = "restart"
        /\ \E s \in {start(Q)} :
            IF s.raised THEN EndTick(k, s.q, TRUE)
            ELSE /\ SetQ(s.q)
                 /\ Replace(k, [k EXCEPT !.pc = "stop"])
                 /\ UNCHANGED escaped
    /\ UNCHANGED <<bootVars, fs, events, handler, lastHandled, operations, nUser, nFail,
                   removed, lateAttempt, retried, lost>>

\* inquire: self.stop()
InquireStop ==
    /\ mainpc # "exited"
    /\ \E k \in ticks :
        /\ k.pc = "stop"
        /\ SetQ(stop(Q))
        /\ Replace(k, [k EXCEPT !.pc = "tail"])
    /\ UNCHANGED <<bootVars, fs, events, handler, lastHandled, operations, nUser, nFail,
                   histVars>>

\* inquire: the test of the list's length and start()
InquireStart ==
    /\ mainpc # "exited"
    /\ \E k \in ticks :
        /\ k.pc = "tail"
        /\ IF Len(operations) > 0
           THEN \E s \in {start(Q)} : EndTick(k, s.q, s.raised)
           ELSE EndTick(k, Q, FALSE)
    /\ UNCHANGED <<bootVars, fs, events, handler, lastHandled, operations, nUser, nFail,
                   removed, lateAttempt, retried, lost>>

Next ==
    \/ Validate
    \/ UpdateActiveDrives
    \/ StartupSync
    \/ DriveChange
    \/ DevicesChanged
    \/ Interrupt
    \/ UserCreate
    \/ UserModify
    \/ UserDelete
    \/ UserMove
    \/ Dispatch
    \/ QueueOperation
    \/ QueueOperationAppend
    \/ QueueOperationStart
    \/ HandlerStart
    \/ TimerFires
    \/ InquireTry
    \/ InquireDequeue
    \/ DequeueRemove
    \/ DequeueStart
    \/ InquireStop
    \/ InquireStart

Spec == Init /\ [][Next]_vars

(***************************************************************************)
(* The observer thread and the timer threads alone: the rule is synced and *)
(* watched, two changes to the source tree wait for the observer thread,   *)
(* and a timer started while a tick runs may fire during that tick         *)
(***************************************************************************)
\* the startup sync of the run's rule
RunSync == ensureDataIsBackuped(RunConfig, 1, Sync(RunTree, <<>>, FALSE), {}, {})

InitOverlap ==
    /\ includes = RunConfig
    /\ config = Objects(includes)
    /\ drives = {"C:", "D:"}
    /\ watchers = observeFileSystem(RunSync.obs)
    /\ \E c \in Contents :
        fs = (RunFile("g") :> c) @@ [RunSync.fs EXCEPT ![RunFile("f")] = "v2"]
    /\ events \in {<<[Event("created", RunFile("g"), <<>>) EXCEPT !.wid = 1],
                      [Event("modified", RunFile("f"), <<>>) EXCEPT !.wid = 1]>>,
                    <<[Event("modified", RunFile("f"), <<>>) EXCEPT !.wid = 1],
                      [Event("created", RunFile("g"), <<>>) EXCEPT !.wid = 1]>>}
    /\ mainpc = "running"
    /\ nDrives = 0
    /\ devRaised = FALSE
    /\ bootActive = <<TRUE>>
    /\ reported = NoReport
    /\ handler = Idle
    /\ lastHandled = [outcome |-> "none"]
    /\ operations = <<>>
    /\ hasStarted = FALSE
    /\ timer = 1
    /\ timers = (1 :> "new")
    /\ ticks = {}
    /\ nUser = 2
    /\ nFail = 0
    /\ removed = {}
    /\ lateAttempt = FALSE
    /\ retried = {}
    /\ lost = FALSE
    /\ escaped = {}

NextOverlap ==
    \/ Dispatch
    \/ QueueOperation
    \/ QueueOperationAppend
    \/ QueueOperationStart
    \/ HandlerStart
    \/ TimerFiresOverlap
    \/ InquireTry
    \/ InquireDequeue
    \/ DequeueRemove
    \/ DequeueStart
    \/ InquireStop
    \/ InquireStart

SpecOverlap == InitOverlap /\ [][NextOverlap]_vars

(***************************************************************************)
(* Definitions the properties share                                        *)
(***************************************************************************)
\* e is a strict descendant of p by path components
ProperSubPath(e, p) == StartsWith(e, p \o <<SEP>>) /\ Len(e) > Len(p) + 1

\* s is e or lies below it
AtOrBelow(s, e) == s = e \/ StartsWith(s, e \o <<SEP>>)

\* the mapped target of source path s of include path p of a rule
MappedTarget(include, p, s) ==
    join(join(include.targetPath, basename(p)), removeprefix(s, p \o <<SEP>>))

\* the source files at or below p
SourceFiles(p) == {s \in DOMAIN fs : AtOrBelow(s, p) /\ fs[s] # "dir"}

\* the watchers of a rule in a watchers list
WatchersOf(include, ws) ==
    Pick(ws, {k \in DOMAIN ws :
                /\ ws[k].baseTargetPath = include.targetPath
                /\ \E j \in DOMAIN include.includePaths :
                      include.includePaths[j] = ws[k].sourcePath}, 1)

\* the target tree of a rule in a file system
TargetTree(include, f) ==
    {q \in DOMAIN f : \E j \in DOMAIN include.includePaths :
        AtOrBelow(q, join(include.targetPath, basename(include.includePaths[j])))}

(***************************************************************************)
(* C3: during initial sync of an active rule no file whose source path     *)
(* lies under one of the rule's exclude paths is copied to the target,     *)
(* whatever the depth of the exclude below its include path.  The targets  *)
(* start empty, so a mapped target that exists was copied.                 *)
(***************************************************************************)
C3_NoExcludedFileCopied ==
    mainpc = "running" =>
        \A i \in DOMAIN includes :
        \A j \in DOMAIN includes[i].includePaths :
        \A k \in DOMAIN includes[i].excludes :
            ProperSubPath(includes[i].excludes[k], includes[i].includePaths[j]) =>
                \A s \in SourceFiles(includes[i].excludes[k]) :
                    MappedTarget(includes[i], includes[i].includePaths[j], s) \notin DOMAIN fs

(***************************************************************************)
(* C5: after the validation traversal every entry remaining in a rule's    *)
(* excludes is a proper sub-path, by path components, of one of the rule's *)
(* include paths.                                                          *)
(***************************************************************************)
C5_ExcludesAreProperSubPaths ==
    mainpc # "validate" =>
        \A i \in DOMAIN includes :
        \A k \in DOMAIN includes[i].excludes :
        \E j \in DOMAIN includes[i].includePaths :
            ProperSubPath(includes[i].excludes[k], includes[i].includePaths[j])

(***************************************************************************)
(* C6: drive activation                                                    *)
(***************************************************************************)
\* the startup pass: a rule whose drive is absent gets isActive false, and
\* the startup sync gives an inactive rule no watcher
StartupLeavesInactiveUnwatched ==
    /\ (mainpc = "drives" /\ mainpc' = "sync") =>
          \A i \in DOMAIN includes :
             includes'[i].isActive = (includes[i].targetPath[1] \in drives)
    /\ (mainpc = "sync" /\ mainpc' # "sync") =>
          \A i \in DOMAIN includes :
             ~includes[i].isActive => WatchersOf(includes[i], watchers') = <<>>

\* rule i was inactive and this step, a notification, finds its drive present
Activated(i) == mainpc = "running" /\ ~includes[i].isActive /\ includes'[i].isActive

\* every include path of rule i has a running watcher and its target
\* directory, which the walk of the initial sync creates first
SyncedAndWatched(i) ==
    \A j \in DOMAIN includes[i].includePaths :
        /\ \E k \in DOMAIN watchers' :
              /\ watchers'[k].sourcePath = includes[i].includePaths[j]
              /\ watchers'[k].baseTargetPath = includes[i].targetPath
              /\ watchers'[k].running
        /\ isdir(join(includes[i].targetPath, basename(includes[i].includePaths[j])), fs')

\* the step leaves rule r as it was: its flag, its watchers, its target tree
Untouched(r) ==
    /\ includes'[r].isActive = includes[r].isActive
    /\ WatchersOf(includes[r], watchers') = WatchersOf(includes[r], watchers)
    /\ TargetTree(includes[r], fs') = TargetTree(includes[r], fs)
    /\ \A q \in TargetTree(includes[r], fs) : fs'[q] = fs[q]

OpIds(ops) == {ops[k].id : k \in DOMAIN ops}

Range(s) == {s[k] : k \in DOMAIN s}

\* timer thread k ends in this step
Ended(k) == k \in ticks /\ \A k2 \in ticks' : k2.t # k.t

\* the times a tick tried operation id
Tries(k, id) == Cardinality({n \in DOMAIN k.tried : k.tried[n] = id})

C2_DeactivationDequeues ==
    \A k \in DOMAIN operations : operations[k].operation.w.id \in Ids(watchers)

(***************************************************************************)
(* C4: no handler call and no retry creates, changes, renames or deletes   *)
(* a target path that is the mapped destination of a source path at or     *)
(* below one of the rule's excludes.                                       *)
(***************************************************************************)
\* q is the mapped destination of a source path at or below an exclude
ExcludedTarget(q) ==
    \E i \in DOMAIN includes :
    \E j \in DOMAIN includes[i].includePaths :
    \E e \in DOMAIN includes[i].excludes :
        /\ ProperSubPath(includes[i].excludes[e], includes[i].includePaths[j])
        /\ AtOrBelow(q, MappedTarget(includes[i], includes[i].includePaths[j],
                                     includes[i].excludes[e]))

\* the paths this step creates, changes or deletes
Changed == {q \in DOMAIN fs \cup DOMAIN fs' :
                \/ q \notin DOMAIN fs
                \/ q \notin DOMAIN fs'
                \/ fs[q] # fs'[q]}

\* this step is a handler's or a tick's file system call
Reflects == handler' # handler \/ lastHandled' # lastHandled \/ ticks' # ticks

C4_ExcludedTargetsUntouched ==
    [][Reflects => \A q \in Changed : ~ExcludedTarget(q)]_vars

(***************************************************************************)
(* C7: a handler whose file system call fails with a PermissionError       *)
(* appends exactly one operation, the same action on the same paths, and   *)
(* emits no error event; one whose call fails with another OSError emits   *)
(* an error event and queues nothing.                                      *)
(***************************************************************************)
C7_PermissionQueuedOtherReported ==
    /\ lastHandled.outcome = "perm" =>
          /\ Len(lastHandled.queued) = 1
          /\ lastHandled.queued[1].operation = lastHandled.call.c
          /\ lastHandled.errs = 0
    /\ lastHandled.outcome = "os" =>
          /\ lastHandled.queued = <<>>
          /\ lastHandled.errs = 1

\* a handler call has ended whose call failed with a PermissionError and
\* whose operation is in the queue, after one that reported an OSError
C7_Witness ==
    /\ lastHandled.outcome = "perm"
    /\ lost
    /\ escaped = {}
    /\ \E k \in DOMAIN operations : operations[k] = lastHandled.queued[1]

(***************************************************************************)
(* C8: no exception leaves an event handler or a tick.                     *)
(***************************************************************************)
C8_NoExceptionEscapes == escaped = {}

(***************************************************************************)
(* C9: the list is never appended to while a tick iterates over it and     *)
(* never removed from while another tick iterates over it or the handler   *)
(* is inside QueueOperation.                                               *)
(***************************************************************************)
C9_QueueMutualExclusion ==
    [][/\ Len(operations') > Len(operations) => \A k \in ticks : k.pc # "loop"
       /\ Len(operations') < Len(operations) =>
             /\ \A k \in ticks \cap ticks' : k.pc # "loop"
             /\ handler.pc \notin {"append", "restart"}]_vars

(***************************************************************************)
(* C10: once an operation was queued and the queue has drained, with no    *)
(* event pending, no handler or tick running, no operation dropped, no     *)
(* exception and the drive present throughout, every source file the       *)
(* watcher does not ignore has its mapped target with the same content and *)
(* every target file has its source file.                                  *)
(***************************************************************************)
Drained ==
    /\ mainpc = "running"
    /\ nDrives = 0
    /\ watchers # <<>>
    /\ events = <<>>
    /\ handler.pc = "idle"
    /\ ticks = {}
    /\ operations = <<>>
    /\ removed # {}
    /\ ~lost
    /\ escaped = {}

Mirrored(w) ==
    /\ \A s \in SourceFiles(w.sourcePath) :
          ~shouldIgnore(w, s) =>
              /\ destinationPath(w, s) \in DOMAIN fs
              /\ fs[destinationPath(w, s)] = fs[s]
    /\ \A q \in Under(targetPath(w), fs) :
          fs[q] # "dir" =>
              \E s \in SourceFiles(w.sourcePath) : destinationPath(w, s) = q

C10_MirrorAfterRetry ==
    Drained => \A k \in DOMAIN watchers : Mirrored(watchers[k])

\* the copy of source file pr[1] to pr[2] fails, in file system f: the
\* destination is a directory
FailedCopy(pr, f) == isfile(pr[1], f) /\ isdir(pr[2], f)

\* the walk of include path j of rule i meets a copy that fails
WalkFailed(i, j) ==
    \E pr \in Walked(includes[i].includePaths[j],
                     join(includes[i].targetPath, basename(includes[i].includePaths[j])),
                     arrangeIgnorePatterns(includes[i]), fs) : FailedCopy(pr, fs)

NoCopyFails(i) == \A j \in DOMAIN includes[i].includePaths : ~WalkFailed(i, j)

(***************************************************************************)
(* C11: a second initial sync of a rule, with no source change and no      *)
(* failed copy since the first, finds every destination file in place and  *)
(* equal to its source, so it copies nothing and deletes nothing.  The     *)
(* second sync is the one of a rule that was synced at startup, lost its   *)
(* drive and is activated again when the drive is back.                    *)
(***************************************************************************)
\* this step syncs rule i for the second time
SyncedAgain(i) ==
    /\ mainpc = "running"
    /\ bootActive[i]
    /\ ~includes[i].isActive
    /\ includes'[i].isActive
    /\ ~devRaised'

\* tryCopy2 returns at once for every file the sync of rule i walks: the
\* destination exists and filecmp.cmp finds it equal to the source
AllSkipped(i) ==
    \A j \in DOMAIN includes[i].includePaths :
    \A pr \in Walked(includes[i].includePaths[j],
                     join(includes[i].targetPath, basename(includes[i].includePaths[j])),
                     arrangeIgnorePatterns(includes[i]), fs) :
        exists(pr[2], fs) /\ cmp(pr[1], pr[2], fs)

C11_SecondSyncCopiesNothing ==
    [][\A i \in DOMAIN includes :
        (SyncedAgain(i) /\ NoCopyFails(i)) =>
            /\ AllSkipped(i)
            /\ TargetTree(includes[i], fs') = TargetTree(includes[i], fs)
            /\ \A q \in TargetTree(includes[i], fs) : fs'[q] = fs[q]]_vars

(***************************************************************************)
(* C12: after the initial sync of an active rule with no excludes, with no *)
(* failure, every file below every include path of the rule is at          *)
(* targetPath/basename(include path)/relative path with the content of the *)
(* source file.                                                            *)
(***************************************************************************)
C12_TargetEqualsSource ==
    (mainpc = "running" /\ nDrives = 0) =>
        \A i \in DOMAIN includes :
            (includes[i].isActive /\ includes[i].excludes = <<>> /\ NoCopyFails(i)) =>
                \A j \in DOMAIN includes[i].includePaths :
                \A s \in SourceFiles(includes[i].includePaths[j]) :
                    /\ MappedTarget(includes[i], includes[i].includePaths[j], s) \in DOMAIN fs
                    /\ fs[MappedTarget(includes[i], includes[i].includePaths[j], s)] = fs[s]
(***************************************************************************)
(* C13: whenever a rule object of the configuration file has no targetPath *)
(* or an empty one, reading the configuration fails with an error and no   *)
(* Include is constructed.                                                 *)
(***************************************************************************)
Unspecified(obj) ==
    IF get(obj, TARGET_PATH) = <<>> THEN TRUE ELSE get(obj, TARGET_PATH)[1] = <<>>

C13_UnspecifiedTargetPathFails ==
    (mainpc # "read" /\ \E k \in DOMAIN config : Unspecified(config[k])) =>
        (mainpc = "failed" /\ includes = <<>>)

(***************************************************************************)
(* C14: when an I/O operation on a single file fails while the initial     *)
(* sync walks an include path (here: the destination of a file is a        *)
(* directory, which os.remove cannot delete), the sync ends as failed and  *)
(* no Watcher is created for that include path.                            *)
(***************************************************************************)
C14_FailedCopyFailsSync ==
    [][(mainpc = "sync" /\ mainpc' # "sync") =>
        \A i \in DOMAIN includes :
        \A j \in DOMAIN includes[i].includePaths :
            (includes[i].isActive /\ WalkFailed(i, j)) =>
                /\ mainpc' = "failed"
                /\ ~\E k \in DOMAIN watchers' :
                       /\ watchers'[k].sourcePath = includes[i].includePaths[j]
                       /\ watchers'[k].baseTargetPath = includes[i].targetPath]_vars

(***************************************************************************)
(* C15: when the process has exited after an interrupt, every Watcher of   *)
(* the watcher list has been stopped and no tick of the retry queue is     *)
(* left unfinished.                                                        *)
(***************************************************************************)
C15_ShutdownStopsEverything ==
    mainpc = "exited" =>
        /\ \A k \in DOMAIN watchers : ~watchers[k].running
        /\ ticks = {}

(***************************************************************************)
(* C16: once main() is running, after every volume-change notification,   *)
(* however its handling ended, the watcher list holds no Watcher of a rule *)
(* whose isActive is false, at most one Watcher for each include path of a *)
(* rule, and only running Watchers.                                        *)
(***************************************************************************)
C16_WatchersMatchActiveRules ==
    mainpc = "running" =>
        /\ \A k \in DOMAIN watchers : watchers[k].running
        /\ \A i \in DOMAIN includes :
            /\ ~includes[i].isActive => WatchersOf(includes[i], watchers) = <<>>
            /\ \A j \in DOMAIN includes[i].includePaths :
                 Cardinality({k \in DOMAIN watchers :
                                /\ watchers[k].sourcePath = includes[i].includePaths[j]
                                /\ watchers[k].baseTargetPath = includes[i].targetPath}) <= 1

(***************************************************************************)
(* C17: a failure in the sync of one rule abandons that rule's sync only.  *)
(* The walk of at most one source path fails in a pass, so of two active   *)
(* rules that share no include path and whose target drives are present at *)
(* least one is fully watched after the startup pass; and a notification   *)
(* that turns a rule inactive removes that rule's Watchers, whatever the   *)
(* activation of other rules in the same notification did.                 *)
(***************************************************************************)
Paths(i) == {includes[i].includePaths[j] : j \in DOMAIN includes[i].includePaths}

Syncable(i) == includes[i].isActive /\ includes[i].targetPath[1] \in drives

FullyWatched(i) ==
    \A p \in Paths(i) : \E k \in DOMAIN watchers' :
        /\ watchers'[k].sourcePath = p
        /\ watchers'[k].baseTargetPath = includes[i].targetPath

C17_FailureIsolated ==
    [][/\ (mainpc = "sync" /\ mainpc' # "sync") =>
            \A i, r \in DOMAIN includes :
                (Syncable(i) /\ Syncable(r) /\ Paths(i) \cap Paths(r) = {}) =>
                    (FullyWatched(i) \/ FullyWatched(r))
       /\ mainpc = "running" =>
            \A i \in DOMAIN includes :
                (includes[i].isActive /\ ~includes'[i].isActive) =>
                    WatchersOf(includes[i], watchers') = <<>>]_vars

(***************************************************************************)
(* C18: when a tick ends, a timer is armed if and only if the queue holds  *)
(* an operation; after a tick in which every operation succeeded no timer  *)
(* is armed.                                                               *)
(***************************************************************************)
Armed(ts) == \E t \in DOMAIN ts : ts[t] = "armed"

C18_ArmedIffOperationsRemain ==
    [][\A k \in ticks : Ended(k) => (Armed(timers') <=> operations' # <<>>)]_vars

(***************************************************************************)
(* C19: QueueOperation called while the manager has started stops the      *)
(* timer (no timer is armed after its stop()), appends the operation and   *)
(* arms a new timer: when it returns exactly one timer is armed, the one   *)
(* the manager refers to.                                                  *)
(***************************************************************************)
ArmedTimers(ts) == {t \in DOMAIN ts : ts[t] = "armed"}

C19_EnqueueRestartsTimer ==
    [][/\ (handler.pc = "queue" /\ hasStarted /\ handler' # handler) =>
            /\ handler'.pc = "append"
            /\ ArmedTimers(timers') = {}
       /\ (handler.pc = "append" /\ handler' # handler) =>
            /\ handler'.pc = "restart"
            /\ operations' = Append(operations, handler.op)
       /\ (handler.pc = "restart" /\ handler' # handler) =>
            /\ handler'.pc = "start"
            /\ ArmedTimers(timers') = {timer'}
            /\ operations' = operations]_vars

(***************************************************************************)
(* C20: a tick tries the operations that are in the queue when it begins   *)
(* once each, in the order of the queue, and the operations that failed    *)
(* are in the queue in the same relative order when the tick ends.  The    *)
(* ticks are those of a sequence: a tick that runs while another does is   *)
(* left out.                                                               *)
(***************************************************************************)
\* the elements of sequence s that are in set S, in the order of s
Only(s, S) == Pick(s, {n \in DOMAIN s : s[n] \in S}, 1)

IdsOf(ops) == [n \in DOMAIN ops |-> ops[n].id]

Deactivated(i) == mainpc = "running" /\ includes[i].isActive /\ ~includes'[i].isActive

OfDeactivated(w) ==
    \E i \in DOMAIN includes :
        /\ Deactivated(i)
        /\ w.baseTargetPath = includes[i].targetPath
        /\ \E j \in DOMAIN includes[i].includePaths : includes[i].includePaths[j] = w.sourcePath

C21_DeactivateRemovesExactly ==
    [][(\E i \in DOMAIN includes : Deactivated(i)) =>
        /\ ~devRaised'
        /\ \A k \in DOMAIN watchers' : ~OfDeactivated(watchers'[k])
        /\ watchers' = Pick(watchers, {k \in DOMAIN watchers : ~OfDeactivated(watchers[k])}, 1)]_vars

(***************************************************************************)
(* C22: the ignore patterns used for include path P, by its initial sync   *)
(* and by its watcher, are exactly the rule's excludes that lie under P,   *)
(* each relative to P; an exclude under another include path of the rule   *)
(* contributes no pattern for P, so a source file under P that is under no *)
(* exclude of the rule is neither skipped by the sync nor ignored by the   *)
(* watcher.                                                                *)
(***************************************************************************)
ExcludesUnder(include, p) ==
    {include.excludes[k] : k \in {n \in DOMAIN include.excludes :
                                    StartsWith(include.excludes[n], p \o <<SEP>>)}}

Unexcluded(include, p) ==
    {s \in SourceFiles(p) : ~\E k \in DOMAIN include.excludes : AtOrBelow(s, include.excludes[k])}

C22_PatternsOfOwnIncludePath ==
    \A i \in DOMAIN includes :
    \A k \in DOMAIN watchers :
        (/\ watchers[k].baseTargetPath = includes[i].targetPath
         /\ watchers[k].sourcePath \in Paths(i)) =>
            /\ Range(watchers[k].ignorePaths) =
                   {removeprefix(e, watchers[k].sourcePath \o <<SEP>>) :
                        e \in ExcludesUnder(includes[i], watchers[k].sourcePath)}
            /\ \A s \in Unexcluded(includes[i], watchers[k].sourcePath) :
                   /\ ~shouldIgnore(watchers[k], s)
                   /\ \E pr \in Walked(watchers[k].sourcePath, targetPath(watchers[k]),
                                       watchers[k].ignorePaths, fs) : pr[1] = s

(***************************************************************************)
(* C23: on a volume-change notification every rule's drive existence is    *)
(* recomputed; a rule is reported as newly activated exactly when its      *)
(* isActive flipped from false to true in this recomputation and as newly  *)
(* deactivated exactly when it flipped from true to false; the two         *)
(* reported sets are disjoint, a rule whose isActive did not change is in  *)
(* neither, and a notification that changes no rule's drive presence       *)
(* invokes neither callback.                                               *)
(***************************************************************************)
ReportedTo(call) == IF call = <<>> THEN {} ELSE Range(call[1])

Flipped(i, from) == includes[i].isActive = from /\ includes'[i].isActive = ~from

C23_ReportedExactlyTheFlips ==
    [][(mainpc = "running" /\ (includes' # includes \/ reported' # reported)) =>
        /\ \A i \in DOMAIN includes :
            /\ includes'[i].isActive = (includes[i].targetPath[1] \in drives)
            /\ includes'[i] \in ReportedTo(reported'.onActivate) <=> Flipped(i, FALSE)
            /\ includes'[i] \in ReportedTo(reported'.onDeactivate) <=> Flipped(i, TRUE)
        /\ ReportedTo(reported'.onActivate) \cap ReportedTo(reported'.onDeactivate) = {}
        /\ (\A i \in DOMAIN includes : includes'[i].isActive = includes[i].isActive)
               => reported' = NoReport]_vars

(***************************************************************************)
(* C24: a moved event on a non-ignored source changes the target only when *)
(* the last path components of the event's source and destination differ   *)
(* and the old mapped destination exists; in that case the entry at the    *)
(* new mapped path, if any, is deleted and the old mapped path is renamed  *)
(* to the new mapped path (or the call fails and is queued or reported, as *)
(* C7 describes); in every other case the target tree and the retry queue  *)
(* are unchanged.                                                          *)
(***************************************************************************)
\* the target path a source path below the watcher's source maps to
MappedBy(w, p) ==
    join(join(w.baseTargetPath, basename(w.sourcePath)), removeprefix(p, w.sourcePath \o <<SEP>>))

\* the observer thread takes a moved event
MovedDispatch ==
    /\ mainpc = "running"
    /\ handler.pc = "idle"
    /\ events # <<>>
    /\ Head(events).type = "moved"
    /\ events' = Tail(events)
    /\ watchers' = watchers

MoveActs(w, e) ==
    /\ basename(e.src) # basename(e.dest)
    /\ exists(MappedBy(w, e.src), fs)

\* the step replaced what was at new by what was at old and left the rest
RenamedTo(old, new) ==
    /\ \A q \in DOMAIN fs' :
          IF AtOrBelow(q, new)
          THEN /\ (old \o SubSeq(q, Len(new) + 1, Len(q))) \in DOMAIN fs
               /\ fs'[q] = fs[old \o SubSeq(q, Len(new) + 1, Len(q))]
          ELSE /\ ~AtOrBelow(q, old)
               /\ q \in DOMAIN fs
               /\ fs'[q] = fs[q]
    /\ \A q \in DOMAIN fs :
          IF AtOrBelow(q, old)
          THEN (new \o SubSeq(q, Len(old) + 1, Len(q))) \in DOMAIN fs'
          ELSE AtOrBelow(q, new) \/ q \in DOMAIN fs'

C24_MoveRenamesMappedPath ==
    [][MovedDispatch =>
        \A e \in {Head(events)} :
        \A w \in {x \in Range(watchers) : x.id = e.wid} :
            ~shouldIgnore(w, e.src) =>
                IF MoveActs(w, e)
                THEN \/ handler'.pc = "queue" /\ handler'.err = "perm" /\ fs' = fs
                     \/ /\ handler' = Idle
                        /\ lastHandled'.outcome = "os"
                        /\ fs' = fs
                        /\ operations' = operations
                     \/ /\ handler' = Idle
                        /\ lastHandled'.outcome = "ok"
                        /\ RenamedTo(MappedBy(w, e.src), MappedBy(w, e.dest))
                        /\ operations' = operations
                ELSE /\ fs' = fs
                     /\ handler' = Idle
                     /\ operations' = operations]_vars

C24_Witness ==
    /\ lastHandled.outcome = "ok"
    /\ lastHandled.call.act
    /\ lastHandled.call.c.kind = "rename"
    /\ lastHandled.call.c.b = <<"D:", SEP, "b", SEP, "d", SEP, "a", SEP, "g">>
    /\ lastHandled.call.c.b \in DOMAIN fs
    /\ lastHandled.call.c.a \notin DOMAIN fs

(***************************************************************************)
(* C25: under every interleaving of the watcher thread's enqueues          *)
(* (QueueCallable followed by start) with the timer thread's tick, at most *)
(* one retry timer is armed at any time, no timer object is started twice, *)
(* and no two ticks execute concurrently.                                  *)
(***************************************************************************)
\* the timer thread of tick k leaves position pc in this step
Leaves(k, pc) == k.pc = pc /\ \A k2 \in ticks' : k2.t = k.t => k2.pc # pc

\* a thread calls AttemptsManager.start in this step
StartCalled ==
    \/ handler.pc \in {"restart", "start"} /\ handler' # handler
    \/ \E k \in ticks : Leaves(k, "restart")
    \/ \E k \in ticks : Leaves(k, "tail") /\ Len(operations) > 0

C25_OneTimerOneTick ==
    /\ [](Cardinality(ArmedTimers(timers)) <= 1 /\ Cardinality(ticks) <= 1)
    /\ [][StartCalled => (timer = 0 \/ timers[timer] = "new")]_vars

(***************************************************************************)
(* C26: whenever no enqueue, dequeue or tick is in progress, a non-empty   *)
(* pending list implies that the retry timer is armed, so that every       *)
(* queued operation is attempted by a future tick; this holds after any    *)
(* sequence, and under any interleaving, of handler enqueues and ticks.    *)
(***************************************************************************)
Quiescent == handler.pc = "idle" /\ ticks = {}

C26_PendingImpliesArmed ==
    (mainpc = "running" /\ Quiescent /\ operations # <<>>) => Armed(timers)

=============================================================================
